---- MODULE Spec2Model ----
(***************************************************************************)
(* Model of device_manager/device_manager.py: the class-level state of     *)
(* DeviceManager (selected device type, device selection, cached           *)
(* distribute strategy, last scope, growth flag), its selection methods,   *)
(* the lazy strategy build, the context-manager protocol and the           *)
(* use_cpu / use_gpuN decorators.                                          *)
(*                                                                         *)
(* Python strings are sequences of one-character strings, so that          *)
(* str.upper, str.lower, str.split and str.format are computed.            *)
(***************************************************************************)
EXTENDS Integers, Sequences, FiniteSets, TLC

VARIABLES
    host,           \* what tf.config.list_physical_devices reports, by type
    _device,        \* DeviceManager._device: "None", "cpu" or "gpu"
    _device_list,   \* DeviceManager._device_list
    _strategy,      \* DeviceManager._strategy (NoStrategy models None)
    _scope,         \* DeviceManager._scope: index into scopes, 0 models None
    _growth,        \* DeviceManager._growth
    builds,         \* number of strategy objects constructed so far
    scopes,         \* the scope objects strategy.scope() has returned
    memory_growth,  \* the framework's memory-growth setting of each GPU
    stack,          \* open "with" blocks and running decorated functions
    call            \* the most recent call on the manager and its outcome

vars == <<host, _device, _device_list, _strategy, _scope, _growth, builds,
          scopes, memory_growth, stack, call>>

---------------------------------------------------------------------------
(* Bounds of the model *)

MaxGPU == 4
MaxBuilds == 2
MaxScopes == 2

---------------------------------------------------------------------------
(* Python strings *)

Lowers == <<"a","b","c","d","e","f","g","h","i","j","k","l","m",
            "n","o","p","q","r","s","t","u","v","w","x","y","z">>
Uppers == <<"A","B","C","D","E","F","G","H","I","J","K","L","M",
            "N","O","P","Q","R","S","T","U","V","W","X","Y","Z">>
Digits == <<"0","1","2","3","4","5","6","7","8","9">>

\* position of character c in alphabet abc, 0 when absent
PosIn(c, abc) ==
    IF \E k \in 1..Len(abc) : abc[k] = c
    THEN CHOOSE k \in 1..Len(abc) : abc[k] = c
    ELSE 0

\* A character outside ASCII is written by its code point
Ch_DotlessI  == "U+0131"
Ch_LongS     == "U+017F"
Ch_SharpS    == "U+00DF"
Ch_CapSharpS == "U+1E9E"
Ch_LigFi     == "U+FB01"
Ch_LigLongST == "U+FB05"
Ch_LigSt     == "U+FB06"
Ch_eAcute    == "U+00E9"
Ch_EAcute    == "U+00C9"
Ch_aUmlaut   == "U+00E4"
Ch_AUmlaut   == "U+00C4"
Ch_Kelvin    == "U+212A"
Ch_IDotAbove == "U+0130"
Ch_DotAbove  == "U+0307"
Ch_Sigma     == "U+03A3"
Ch_sigma     == "U+03C3"
Ch_EndSigma  == "U+03C2"
Ch_Micro     == "U+00B5"
Ch_Mu        == "U+039C"
Ch_mu        == "U+03BC"
Ch_nApos     == "U+0149"
Ch_Apos      == "U+02BC"
Ch_DZ        == "U+01C4"
Ch_Dz        == "U+01C5"
Ch_dz        == "U+01C6"

\* The characters the strings of the model are made of. upper() and lower()
\* are modelled on these and on no other character
NonAscii == {Ch_DotlessI, Ch_LongS, Ch_SharpS, Ch_CapSharpS, Ch_LigFi, Ch_LigLongST,
             Ch_LigSt, Ch_eAcute, Ch_EAcute, Ch_aUmlaut, Ch_AUmlaut, Ch_Kelvin,
             Ch_IDotAbove, Ch_DotAbove, Ch_Sigma, Ch_sigma, Ch_EndSigma, Ch_Micro,
             Ch_Mu, Ch_mu, Ch_nApos, Ch_Apos, Ch_DZ, Ch_Dz, Ch_dz}

Alphabet == {Lowers[k] : k \in 1..Len(Lowers)} \cup {Uppers[k] : k \in 1..Len(Uppers)}
            \cup {Digits[k] : k \in 1..Len(Digits)} \cup {"/", ":", "_"} \cup NonAscii

\* c.upper() of each character: a string, of two characters for some
UpperTable ==
    [c \in Alphabet |->
        IF PosIn(c, Lowers) > 0 THEN <<Uppers[PosIn(c, Lowers)]>>
        ELSE IF c = Ch_DotlessI THEN <<"I">>
        ELSE IF c = Ch_LongS THEN <<"S">>
        ELSE IF c = Ch_SharpS THEN <<"S", "S">>
        ELSE IF c = Ch_LigFi THEN <<"F", "I">>
        ELSE IF c \in {Ch_LigLongST, Ch_LigSt} THEN <<"S", "T">>
        ELSE IF c = Ch_eAcute THEN <<Ch_EAcute>>
        ELSE IF c = Ch_aUmlaut THEN <<Ch_AUmlaut>>
        ELSE IF c \in {Ch_sigma, Ch_EndSigma} THEN <<Ch_Sigma>>
        ELSE IF c \in {Ch_Micro, Ch_mu} THEN <<Ch_Mu>>
        ELSE IF c = Ch_nApos THEN <<Ch_Apos, "N">>
        ELSE IF c \in {Ch_Dz, Ch_dz} THEN <<Ch_DZ>>
        ELSE <<c>>]

\* c.lower() of each character
LowerTable ==
    [c \in Alphabet |->
        IF PosIn(c, Uppers) > 0 THEN <<Lowers[PosIn(c, Uppers)]>>
        ELSE IF c = Ch_EAcute THEN <<Ch_eAcute>>
        ELSE IF c = Ch_AUmlaut THEN <<Ch_aUmlaut>>
        ELSE IF c = Ch_Kelvin THEN <<"k">>
        ELSE IF c = Ch_IDotAbove THEN <<"i", Ch_DotAbove>>
        ELSE IF c = Ch_CapSharpS THEN <<Ch_SharpS>>
        ELSE IF c = Ch_Sigma THEN <<Ch_sigma>>
        ELSE IF c = Ch_Mu THEN <<Ch_mu>>
        ELSE IF c \in {Ch_DZ, Ch_Dz} THEN <<Ch_dz>>
        ELSE <<c>>]

UpperChar(c) == UpperTable[c]
LowerChar(c) == LowerTable[c]

\* the letters that have a case, and the characters a case context looks past
Cased(c) == c \in Alphabet \ ({Digits[k] : k \in 1..Len(Digits)}
                              \cup {"/", ":", "_", Ch_DotAbove, Ch_Apos})
CaseIgnorable(c) == c \in {":", Ch_DotAbove, Ch_Apos}

\* str.upper(): the characters' mappings, joined
RECURSIVE Upper(_)
Upper(s) == IF s = <<>> THEN <<>> ELSE UpperChar(Head(s)) \o Upper(Tail(s))

\* the capital sigma at position k is lowered to the final sigma: a cased
\* letter stands before it and none after it, case-ignorable characters apart
FinalSigma(s, k) ==
    LET before == {j \in 1..(k - 1) : ~CaseIgnorable(s[j])}
        after == {j \in (k + 1)..Len(s) : ~CaseIgnorable(s[j])}
    IN /\ before # {}
       /\ Cased(s[CHOOSE j \in before : \A i \in before : i <= j])
       /\ \/ after = {}
          \/ ~Cased(s[CHOOSE j \in after : \A i \in after : j <= i])

\* str.lower(): the characters' mappings, joined; a capital sigma by context
RECURSIVE LowerFrom(_, _)
LowerFrom(s, k) ==
    IF k > Len(s) THEN <<>>
    ELSE (IF s[k] = Ch_Sigma /\ FinalSigma(s, k) THEN <<Ch_EndSigma>>
          ELSE LowerChar(s[k])) \o LowerFrom(s, k + 1)

Lower(s) == LowerFrom(s, 1)

\* str.split(':'): the segments between the separators, in order
RECURSIVE SplitFrom(_, _, _)
SplitFrom(s, k, cur) ==
    IF k > Len(s) THEN <<cur>>
    ELSE IF s[k] = ":" THEN <<cur>> \o SplitFrom(s, k + 1, <<>>)
    ELSE SplitFrom(s, k + 1, Append(cur, s[k]))

Split(s) == SplitFrom(s, 1, <<>>)

\* str(int) for the device indices a host can report
IntStr(n) == IF n < 10 THEN <<Digits[n + 1]>>
             ELSE <<Digits[(n \div 10) + 1], Digits[(n % 10) + 1]>>

---------------------------------------------------------------------------
(* The host framework's physical devices *)

PhysPrefix == <<"/","p","h","y","s","i","c","a","l","_","d","e","v","i","c","e",":">>

\* PhysicalDevice(name="/physical_device:GPU:0", device_type="GPU")
PhysicalDevice(type, n) ==
    [name |-> PhysPrefix \o type \o <<":">> \o IntStr(n), device_type |-> type]

TypeCPU == <<"C","P","U">>
TypeGPU == <<"G","P","U">>

DevicesOf(type, count) == [k \in 1..count |-> PhysicalDevice(type, k - 1)]

\* the framework reports one physical CPU and any number of GPUs
Hosts == { [CPU |-> DevicesOf(TypeCPU, 1), GPU |-> DevicesOf(TypeGPU, g)] :
           g \in 0..MaxGPU }

---------------------------------------------------------------------------
(* Device identifiers: an int, a str, or a value of another type *)

Int_(n) == [t |-> "int", i |-> n, s |-> <<>>]
Str_(s) == [t |-> "str", i |-> 0, s |-> s]
Other_ == [t |-> "other", i |-> 0, s |-> <<>>]

S_all    == <<"a","l","l">>
S_ALL    == <<"A","L","L">>
S_FIRST  == <<"F","I","R","S","T">>
S_SECOND == <<"S","E","C","O","N","D">>
S_THIRD  == <<"T","H","I","R","D">>
S_FOURTH == <<"F","O","U","R","T","H">>
S_first  == <<"f","i","r","s","t">>
S_Second == <<"S","e","c","o","n","d">>
S_thIRD  == <<"t","h","I","R","D">>
S_fourth == <<"f","o","u","r","t","h">>
S_FIFTH  == <<"F","I","F","T","H">>
S_zero   == <<"0">>
S_empty  == <<>>
S_fDotlessIrst == <<"f", Ch_DotlessI, "r", "s", "t">>
S_LigFirst     == <<Ch_LigFi, "r", "s", "t">>
S_LongSecond   == <<Ch_LongS, "e", "c", "o", "n", "d">>
S_thSharpSrd   == <<"t", "h", Ch_SharpS, "r", "d">>
S_FIRST_EAcute == <<"F", "I", "R", "S", "T", Ch_eAcute>>
S_firLigSt     == <<"f", "i", "r", Ch_LigSt>>
S_firLigLongST == <<"f", "i", "r", Ch_LigLongST>>

\* a call argument: a Python list of identifiers, or one bare identifier
ListArg(ids) == [list |-> TRUE, ids |-> ids, one |-> Other_]
OneArg(id) == [list |-> FALSE, ids |-> <<>>, one |-> id]

\* the default argument of cpu() and gpu(): devices='all'
DefaultArg == OneArg(Str_(S_all))

---------------------------------------------------------------------------
(* DeviceManager *)

\* the format of line 59 without lower()
ShortName_NoLower(name) ==
    LET parts == Split(name)
    IN <<"/">> \o parts[Len(parts) - 1] \o <<":">> \o parts[Len(parts)]

\* _short_names: '/{}:{}'.format(parts[-2].lower(), parts[-1]) per device
ShortName(name) ==
    LET parts == Split(name)
    IN <<"/">> \o Lower(parts[Len(parts) - 1]) \o <<":">> \o parts[Len(parts)]

_short_names(devices) == [k \in 1..Len(devices) |-> ShortName(devices[k].name)]

ToIndexTable(s) ==
    IF s = S_FIRST THEN 0
    ELSE IF s = S_SECOND THEN 1
    ELSE IF s = S_THIRD THEN 2
    ELSE IF s = S_FOURTH THEN 3
    ELSE -1

\* _to_index with the table looked up without upper()
_to_index_CaseSensitive(device_identifier) ==
    IF device_identifier.t = "int" THEN device_identifier.i
    ELSE IF device_identifier.t = "str" THEN ToIndexTable(device_identifier.s)
    ELSE -1

_to_index(device_identifier) ==
    IF device_identifier.t = "int" THEN device_identifier.i
    ELSE IF device_identifier.t = "str" THEN ToIndexTable(Upper(device_identifier.s))
    ELSE -1

\* the test of line 97 written against 'ALL'
IsAll_UpperCase(device_identifier) ==
    device_identifier.t = "str" /\ device_identifier.s = S_ALL

\* line 97: device_identifier == 'all'
IsAll(device_identifier) ==
    device_identifier.t = "str" /\ device_identifier.s = S_all

\* the loop with a bad identifier passed over instead of raising
RECURSIVE SelectLoop_SkipsBad(_, _, _, _)
SelectLoop_SkipsBad(device_list, k, available, result) ==
    IF k > Len(device_list) THEN [raised |-> FALSE, result |-> result]
    ELSE IF IsAll(device_list[k])
         THEN SelectLoop_SkipsBad(device_list, k + 1, available, result \o available)
    ELSE LET idx == _to_index(device_list[k])
         IN IF (idx < 0) \/ (idx >= Len(available))
            THEN SelectLoop_SkipsBad(device_list, k + 1, available, result)
            ELSE SelectLoop_SkipsBad(device_list, k + 1, available,
                                     Append(result, available[idx + 1]))

\* the loop with result.insert(0, ...) in place of result.append(...)
RECURSIVE SelectLoop_Prepends(_, _, _, _)
SelectLoop_Prepends(device_list, k, available, result) ==
    IF k > Len(device_list) THEN [raised |-> FALSE, result |-> result]
    ELSE IF IsAll(device_list[k])
         THEN SelectLoop_Prepends(device_list, k + 1, available, result \o available)
    ELSE LET idx == _to_index(device_list[k])
         IN IF (idx < 0) \/ (idx >= Len(available))
            THEN [raised |-> TRUE, result |-> result]
            ELSE SelectLoop_Prepends(device_list, k + 1, available,
                                     <<available[idx + 1]>> \o result)

\* the loop of _select_from_available from position k on, result so far given;
\* raised is TRUE when the IndexError of line 103 is raised
RECURSIVE SelectLoop(_, _, _, _)
SelectLoop(device_list, k, available, result) ==
    IF k > Len(device_list) THEN [raised |-> FALSE, result |-> result]
    ELSE IF IsAll(device_list[k])
         THEN SelectLoop(device_list, k + 1, available, result \o available)
    ELSE LET idx == _to_index(device_list[k])
         IN IF (idx < 0) \/ (idx >= Len(available))
            THEN [raised |-> TRUE, result |-> result]
            ELSE SelectLoop(device_list, k + 1, available,
                            Append(result, available[idx + 1]))

_select_from_available(devices, available) ==
    LET device_list == IF devices.list THEN devices.ids ELSE <<devices.one>>
    IN SelectLoop(device_list, 1, available, <<>>)

---------------------------------------------------------------------------
(* Strategy and scope objects of the framework *)

\* _strategy = None
NoStrategy == [id |-> 0, kind |-> "None", devices |-> <<>>]

DefaultCpu == <<"/","c","p","u",":","0">>

\* tf.distribute.MirroredStrategy(devices=devices), the id-th object built
MirroredStrategy(id, devices) == [id |-> id, kind |-> "Mirrored", devices |-> devices]

\* tf.distribute.OneDeviceStrategy(device=device), the id-th object built
OneDeviceStrategy(id, device) == [id |-> id, kind |-> "OneDevice", devices |-> <<device>>]

\* strategy.num_replicas_in_sync, as the framework documents it
num_replicas_in_sync(strategy) ==
    IF strategy.kind = "Mirrored" THEN Len(strategy.devices) ELSE 1

\* the object strategy.scope() returns: the id of its strategy object, and how
\* often the object was entered and exited
NewScope(strategy) == [strategy |-> strategy.id, entered |-> 0, exited |-> 0]

---------------------------------------------------------------------------
(* Calls and their outcomes *)

NoArg == ListArg(<<>>)

\* op: the method; by: "user" or the decorator whose wrapper made the call;
\* raised: "none" or the exception that left the call; the other fields hold
\* what the call returned (strategy, num, items, flag) or was passed (arg, flag);
\* caught: the call caught a RuntimeError of the framework (lines 147-148)
Outcome(op, by, arg, raised) ==
    [op |-> op, by |-> by, arg |-> arg, raised |-> raised,
     strategy |-> NoStrategy, num |-> 0, items |-> <<>>, flag |-> FALSE,
     caught |-> FALSE]

\* user code runs: no decorator wrapper is between its select and its "with"
Top == stack[Len(stack)]
UserRuns == IF stack = <<>> THEN TRUE ELSE Top.pc = "body"

---------------------------------------------------------------------------
(* Selection: cpu() and gpu() *)

\* the body with the cached strategy kept across a selection
Select_KeepsStrategy(name, type, devices, by) ==
    LET available == host[type]
        sel == _select_from_available(devices, available)
    IN /\ _device' = name
       /\ UNCHANGED _strategy
       /\ IF sel.raised
          THEN /\ UNCHANGED _device_list
               /\ call' = Outcome(name, by, devices, "IndexError")
          ELSE /\ _device_list' = sel.result
               /\ call' = Outcome(name, by, devices, "none")

\* the body with the strategy reset only when type or devices change
Select_ResetsOnChange(name, type, devices, by) ==
    LET available == host[type]
        sel == _select_from_available(devices, available)
    IN /\ _device' = name
       /\ IF sel.raised
          THEN /\ UNCHANGED <<_device_list, _strategy>>
               /\ call' = Outcome(name, by, devices, "IndexError")
          ELSE /\ _device_list' = sel.result
               /\ _strategy' = IF _device = name /\ _device_list = sel.result
                               THEN _strategy ELSE NoStrategy
               /\ call' = Outcome(name, by, devices, "none")

\* the body with a failed selection leaving no device selected
Select_ClearsOnFailure(name, type, devices, by) ==
    LET available == host[type]
        sel == _select_from_available(devices, available)
    IN /\ _device' = name
       /\ _strategy' = NoStrategy
       /\ IF sel.raised
          THEN /\ _device_list' = <<>>
               /\ call' = Outcome(name, by, devices, "IndexError")
          ELSE /\ _device_list' = sel.result
               /\ call' = Outcome(name, by, devices, "none")

\* the body shared by cpu (lines 114-117) and gpu (lines 128-131): the type is
\* stored first, the selection and the strategy only when nothing was raised
Select(name, type, devices, by) ==
    LET available == host[type]
        sel == _select_from_available(devices, available)
    IN /\ _device' = name
       /\ IF sel.raised
          THEN /\ UNCHANGED <<_device_list, _strategy>>
               /\ call' = Outcome(name, by, devices, "IndexError")
          ELSE /\ _device_list' = sel.result
               /\ _strategy' = NoStrategy
               /\ call' = Outcome(name, by, devices, "none")

cpu(devices, by) ==
    /\ Select("cpu", "CPU", devices, by)
    /\ UNCHANGED <<host, _scope, _growth, builds, scopes, memory_growth>>

gpu(devices, by) ==
    /\ Select("gpu", "GPU", devices, by)
    /\ UNCHANGED <<host, _scope, _growth, builds, scopes, memory_growth>>

---------------------------------------------------------------------------
(* The lazy strategy build *)

\* lines 151-156 with "> 2" for the mirrored strategy
StrategyFor_MoreThanTwo(id, devices) ==
    IF Len(devices) > 2 THEN MirroredStrategy(id, devices)
    ELSE IF Len(devices) = 1 THEN OneDeviceStrategy(id, devices[1])
    ELSE OneDeviceStrategy(id, DefaultCpu)

\* lines 151-156: the strategy for the formatted names of the selection
StrategyFor(id, devices) ==
    IF Len(devices) >= 2 THEN MirroredStrategy(id, devices)
    ELSE IF Len(devices) = 1 THEN OneDeviceStrategy(id, devices[1])
    ELSE OneDeviceStrategy(id, DefaultCpu)

\* What the framework does at the set_memory_growth calls of one build: every
\* call returns (at = 0), or call number at raises RuntimeError (the runtime
\* is initialized already) or ValueError (e.g. virtual devices are configured
\* on that GPU)
NoFault == [at |-> 0, error |-> "none"]
Faults == {NoFault} \cup
          {[at |-> k, error |-> e] : k \in 1..MaxGPU, e \in {"RuntimeError", "ValueError"}}

\* lines 143-148 without the test of line 142: the flag is applied whatever
\* type is selected
GrowthApplied_AnyType(raises) ==
    [k \in 1..Len(host.GPU) |->
        IF raises.at = 0 \/ k < raises.at THEN _growth ELSE memory_growth[k]]

\* lines 142-148: set_memory_growth(gpu, _growth) on each GPU in turn, until
\* a call raises: the GPUs before it have the flag, the others are as before
GrowthApplied(raises) ==
    IF _device = "gpu"
    THEN [k \in 1..Len(host.GPU) |->
            IF raises.at = 0 \/ k < raises.at THEN _growth ELSE memory_growth[k]]
    ELSE memory_growth

NeedsBuild == _strategy = NoStrategy

\* the number of set_memory_growth calls a build that starts now comes to make
GrowthCalls == IF NeedsBuild /\ _device = "gpu" THEN Len(host.GPU) ELSE 0

\* line 59: parts[-2] raises IndexError for a name without ':'
ShortNameRaises(name) == Len(Split(name)) < 2

\* the exception that leaves _build_strategy: a ValueError of the framework
\* (line 146; only RuntimeError is caught, line 147), or the IndexError of
\* _short_names (line 149)
BuildRaised(raises) ==
    IF ~NeedsBuild THEN "none"
    ELSE IF raises.error = "ValueError" THEN "ValueError"
    ELSE IF \E k \in 1..Len(_device_list) : ShortNameRaises(_device_list[k].name)
         THEN "IndexError"
    ELSE "none"

\* the build without the test of line 140: every call builds anew
_build_strategy_Rebuilds(raises) ==
    /\ builds < MaxBuilds
    /\ raises.at <= (IF _device = "gpu" THEN Len(host.GPU) ELSE 0)
    /\ memory_growth' = GrowthApplied(raises)
    /\ builds' = builds + 1
    /\ _strategy' = StrategyFor(builds + 1, _short_names(_device_list))

\* the build without lines 144 and 147-148: a RuntimeError of the framework
\* ends the build, and nothing is constructed or cached
_build_strategy_Propagates(raises) ==
    IF NeedsBuild
    THEN /\ builds < MaxBuilds
         /\ raises.at <= GrowthCalls
         /\ memory_growth' = GrowthApplied(raises)
         /\ IF BuildRaised(raises) = "none" /\ raises.error = "none"
            THEN /\ builds' = builds + 1
                 /\ _strategy' = StrategyFor(builds + 1, _short_names(_device_list))
            ELSE UNCHANGED <<_strategy, builds>>
    ELSE /\ raises = NoFault
         /\ UNCHANGED <<_strategy, builds, memory_growth>>

\* lines 140-156: nothing when a strategy is cached; else the flag is applied,
\* and unless an exception leaves the build the strategy is built and cached
_build_strategy(raises) ==
    IF NeedsBuild
    THEN /\ builds < MaxBuilds
         /\ raises.at <= GrowthCalls
         /\ memory_growth' = GrowthApplied(raises)
         /\ IF BuildRaised(raises) = "none"
            THEN /\ builds' = builds + 1
                 /\ _strategy' = StrategyFor(builds + 1, _short_names(_device_list))
            ELSE UNCHANGED <<_strategy, builds>>
    ELSE /\ raises = NoFault
         /\ UNCHANGED <<_strategy, builds, memory_growth>>

---------------------------------------------------------------------------
(* Properties, iteration and the context-manager protocol *)

\* the outcome of a call that went through the build: what left the build
\* leaves the call; caught tells of the RuntimeError of lines 147-148
Built(op, by, raises) ==
    [Outcome(op, by, NoArg, BuildRaised(raises))
        EXCEPT !.strategy = _strategy', !.caught = raises.error = "RuntimeError"]

\* scope(): build if needed, then a new scope object of the strategy
scope(raises) ==
    /\ Len(scopes) < MaxScopes
    /\ _build_strategy(raises)
    /\ scopes' = IF BuildRaised(raises) = "none"
                 THEN Append(scopes, NewScope(_strategy'))
                 ELSE scopes

\* the strategy property
strategy(raises) ==
    /\ _build_strategy(raises)
    /\ call' = Built("strategy", "user", raises)
    /\ UNCHANGED <<host, _device, _device_list, _scope, _growth, scopes, stack>>

\* the replica and num properties: self.strategy.num_replicas_in_sync
ReplicaCount(name, raises) ==
    /\ _build_strategy(raises)
    /\ call' = [Built(name, "user", raises)
                  EXCEPT !.num = IF BuildRaised(raises) = "none"
                                 THEN num_replicas_in_sync(_strategy') ELSE 0]
    /\ UNCHANGED <<host, _device, _device_list, _scope, _growth, scopes, stack>>

replica(raises) == ReplicaCount("replica", raises)

num(raises) == ReplicaCount("num", raises)

\* __iter__: an iterator over the current selection
__iter__ ==
    /\ call' = [Outcome("__iter__", "user", NoArg, "none") EXCEPT !.items = _device_list]
    /\ UNCHANGED <<host, _device, _device_list, _strategy, _scope, _growth,
                   builds, scopes, memory_growth, stack>>

\* __enter__: _scope = scope(); _scope.__enter__(). When the build raises,
\* line 210 assigns nothing
__enter__(raises, by) ==
    /\ Len(scopes) < MaxScopes
    /\ _build_strategy(raises)
    /\ IF BuildRaised(raises) = "none"
       THEN /\ _scope' = Len(scopes) + 1
            /\ scopes' = Append(scopes, [NewScope(_strategy') EXCEPT !.entered = 1])
       ELSE UNCHANGED <<_scope, scopes>>
    /\ call' = Built("__enter__", by, raises)
    /\ UNCHANGED <<host, _device, _device_list, _growth>>

\* __exit__(*exc): _scope.__exit__(*exc); exc tells whether the block raised.
\* The framework's scope returns a false value, so an exception goes on.
\* While _scope is None (no __enter__ has assigned it), line 220 raises
\* AttributeError.
__exit__(exc, by) ==
    /\ IF _scope = 0
       THEN /\ UNCHANGED scopes
            /\ call' = [Outcome("__exit__", by, NoArg, "AttributeError") EXCEPT !.flag = exc]
       ELSE /\ scopes' = [scopes EXCEPT ![_scope].exited = @ + 1]
            /\ call' = [Outcome("__exit__", by, NoArg, IF exc THEN "Exception" ELSE "none")
                          EXCEPT !.flag = exc]
    /\ UNCHANGED <<host, _device, _device_list, _strategy, _scope, _growth,
                   builds, memory_growth>>

\* the setter dropping the cached strategy, for the next build to apply the flag
growth_setter_ResetsStrategy(value) ==
    /\ _growth' = value
    /\ _strategy' = NoStrategy
    /\ call' = [Outcome("growth.setter", "user", NoArg, "none") EXCEPT !.flag = value]
    /\ UNCHANGED <<host, _device, _device_list, _scope,
                   builds, scopes, memory_growth, stack>>

\* the growth property and its setter
growth ==
    /\ call' = [Outcome("growth", "user", NoArg, "none") EXCEPT !.flag = _growth]
    /\ UNCHANGED <<host, _device, _device_list, _strategy, _scope, _growth,
                   builds, scopes, memory_growth, stack>>

growth_setter(value) ==
    /\ _growth' = value
    /\ call' = [Outcome("growth.setter", "user", NoArg, "none") EXCEPT !.flag = value]
    /\ UNCHANGED <<host, _device, _device_list, _strategy, _scope,
                   builds, scopes, memory_growth, stack>>

---------------------------------------------------------------------------
(* "with" blocks and the decorators *)

\* an open block: ctx is the scope object its __enter__ created (0 before the
\* wrapper of a decorator has reached its "with")
Frame(by, pc, ctx) == [by |-> by, pc |-> pc, ctx |-> ctx]

Push(frame) == stack' = Append(stack, frame)
Pop == stack' = SubSeq(stack, 1, Len(stack) - 1)

\* lines 247-250 and the like: the wrapper selects, and goes on to its "with"
\* only when the selection raised nothing
WrapperSelect(by) ==
    IF call'.raised = "none"
    THEN Push(Frame(by, "selected", 0))
    ELSE UNCHANGED stack

\* a wrapper is started only when the model has room for its build and scope
Room == builds < MaxBuilds /\ Len(scopes) < MaxScopes

use_cpu ==
    /\ UserRuns /\ Room
    /\ cpu(DefaultArg, "use_cpu")
    /\ WrapperSelect("use_cpu")

use_gpu0 ==
    /\ UserRuns /\ Room
    /\ gpu(OneArg(Int_(0)), "use_gpu0")
    /\ WrapperSelect("use_gpu0")

use_gpu1 ==
    /\ UserRuns /\ Room
    /\ gpu(OneArg(Int_(1)), "use_gpu1")
    /\ WrapperSelect("use_gpu1")

use_gpu2 ==
    /\ UserRuns /\ Room
    /\ gpu(OneArg(Int_(2)), "use_gpu2")
    /\ WrapperSelect("use_gpu2")

use_gpu3 ==
    /\ UserRuns /\ Room
    /\ gpu(OneArg(Int_(3)), "use_gpu3")
    /\ WrapperSelect("use_gpu3")

\* "with self as device:" of a wrapper: the decorated function starts after it
\* (an exception of __enter__ leaves the wrapper, and no block is opened)
WrapperEnter(raises) ==
    /\ stack # <<>> /\ Top.pc = "selected"
    /\ __enter__(raises, Top.by)
    /\ IF call'.raised = "none"
       THEN stack' = [stack EXCEPT ![Len(stack)] = Frame(Top.by, "body", Len(scopes) + 1)]
       ELSE Pop

\* "with device_manager:" in user code
WithEnter(raises) ==
    /\ UserRuns
    /\ __enter__(raises, "user")
    /\ IF call'.raised = "none"
       THEN Push(Frame("user", "body", Len(scopes) + 1))
       ELSE UNCHANGED stack

\* the innermost block ends, by return (exc false) or by an exception
WithExit(exc) ==
    /\ stack # <<>> /\ Top.pc = "body"
    /\ __exit__(exc, Top.by)
    /\ Pop

---------------------------------------------------------------------------
(* Calls of user code *)

UserCpu(devices) == UserRuns /\ cpu(devices, "user") /\ UNCHANGED stack
UserGpu(devices) == UserRuns /\ gpu(devices, "user") /\ UNCHANGED stack
UserStrategy(raises) == UserRuns /\ strategy(raises)
UserReplica(raises) == UserRuns /\ replica(raises)
UserNum(raises) == UserRuns /\ num(raises)
UserIter == UserRuns /\ __iter__
UserGrowth == UserRuns /\ growth
UserSetGrowth(value) == UserRuns /\ growth_setter(value)

\* DeviceManager.scope() called directly; the object is handed to the caller
UserScope(raises) ==
    /\ UserRuns
    /\ scope(raises)
    /\ call' = Built("scope", "user", raises)
    /\ UNCHANGED <<host, _device, _device_list, _scope, _growth, stack>>

---------------------------------------------------------------------------
(* The arguments user code passes to cpu() and gpu() *)

Args == { OneArg(Str_(S_all)), OneArg(Int_(0)), ListArg(<<Int_(1), Int_(0)>>) }

---------------------------------------------------------------------------
(* The state after the module is imported: lines 42-46 and 315 *)

Init ==
    /\ host \in Hosts
    /\ _device = "None"
    /\ _device_list = <<>>
    /\ _strategy = NoStrategy
    /\ _scope = 0
    /\ _growth = FALSE
    /\ builds = 0
    /\ scopes = <<>>
    /\ memory_growth = [k \in 1..Len(host.GPU) |-> FALSE]
    /\ stack = <<>>
    /\ call = Outcome("import", "user", NoArg, "none")

Next ==
    \/ \E devices \in Args : UserCpu(devices)
    \/ \E devices \in Args : UserGpu(devices)
    \/ \E raises \in Faults : UserStrategy(raises)
    \/ \E raises \in Faults : UserReplica(raises)
    \/ \E raises \in Faults : UserNum(raises)
    \/ \E raises \in Faults : UserScope(raises)
    \/ UserIter
    \/ UserGrowth
    \/ \E value \in BOOLEAN : UserSetGrowth(value)
    \/ \E raises \in Faults : WithEnter(raises)
    \/ \E exc \in BOOLEAN : WithExit(exc)
    \/ use_cpu
    \/ use_gpu0
    \/ use_gpu1
    \/ use_gpu2
    \/ use_gpu3
    \/ \E raises \in Faults : WrapperEnter(raises)

Spec == Init /\ [][Next]_vars

\* the hosts of the specifications without decorators: no preset asks for a
\* third or fourth GPU there
MaxHostGPU == 2

SmallInit == Init /\ Len(host.GPU) <= MaxHostGPU

\* user code that selects, reads the strategy, sets the growth flag and runs
\* "with" blocks, without the decorators
CacheNext ==
    \/ \E devices \in Args : UserCpu(devices)
    \/ \E devices \in Args : UserGpu(devices)
    \/ \E raises \in Faults : UserStrategy(raises)
    \/ \E raises \in Faults : UserReplica(raises)
    \/ \E value \in BOOLEAN : UserSetGrowth(value)
    \/ \E raises \in Faults : WithEnter(raises)
    \/ \E exc \in BOOLEAN : WithExit(exc)

CacheSpec == SmallInit /\ [][CacheNext]_vars

\* the arguments of FrameSpec: one that never fails and one that fails on a
\* host with fewer than two devices of the type
FrameArgs == { DefaultArg, ListArg(<<Int_(1), Int_(0)>>) }

\* user code that selects and then uses the other operations of the manager:
\* the strategy and replica properties, iteration, the growth property and its
\* setter, and "with" blocks
FrameNext ==
    \/ \E devices \in FrameArgs : UserCpu(devices)
    \/ \E devices \in FrameArgs : UserGpu(devices)
    \/ \E raises \in Faults : UserStrategy(raises)
    \/ \E raises \in Faults : UserReplica(raises)
    \/ UserIter
    \/ UserGrowth
    \/ \E value \in BOOLEAN : UserSetGrowth(value)
    \/ \E raises \in Faults : WithEnter(raises)
    \/ \E exc \in BOOLEAN : WithExit(exc)

FrameSpec == SmallInit /\ [][FrameNext]_vars

\* user code that runs decorated functions and "with" blocks, nested or not
ScopeNext ==
    \/ \E raises \in Faults : UserStrategy(raises)
    \/ \E raises \in Faults : WithEnter(raises)
    \/ \E exc \in BOOLEAN : WithExit(exc)
    \/ use_cpu
    \/ use_gpu0
    \/ use_gpu1
    \/ use_gpu2
    \/ use_gpu3
    \/ \E raises \in Faults : WrapperEnter(raises)

ScopeSpec == Init /\ [][ScopeNext]_vars

---------------------------------------------------------------------------
(* One cpu() or gpu() call on every kind of argument *)

MaxIds == 3

RECURSIVE SeqsUpTo(_, _)
SeqsUpTo(S, n) ==
    IF n = 0 THEN {<<>>}
    ELSE LET shorter == SeqsUpTo(S, n - 1)
         IN shorter \cup {Append(q, x) : q \in {r \in shorter : Len(r) = n - 1}, x \in S}

IdStrings == {S_all, S_ALL, S_FIRST, S_first, S_SECOND, S_Second, S_THIRD, S_thIRD,
              S_FOURTH, S_fourth, S_FIFTH, S_zero, S_empty,
              S_fDotlessIrst, S_LigFirst, S_LongSecond, S_thSharpSrd, S_FIRST_EAcute,
              S_firLigSt, S_firLigLongST}

BareIds == {Int_(n) : n \in -2..(MaxGPU + 1)} \cup {Str_(s) : s \in IdStrings} \cup {Other_}

ListIds == {Int_(0), Int_(1), Int_(-1), Str_(S_all), Str_(S_Second), Other_}

SelectArgs == {OneArg(id) : id \in BareIds}
              \cup {ListArg(ids) : ids \in SeqsUpTo(ListIds, MaxIds)}

\* the call has been made and has not run yet
Pending(op) == call.raised = "pending" /\ call.op = op

RunCpu == Pending("cpu") /\ cpu(call.arg, "user") /\ UNCHANGED stack
RunGpu == Pending("gpu") /\ gpu(call.arg, "user") /\ UNCHANGED stack

\* the state in which the call is made: that of Init, or the one an earlier
\* cpu() or gpu() left (devices='all', which raises nothing)
SelectInit ==
    /\ host \in Hosts
    /\ \E prior \in {"None", "cpu", "gpu"} :
          /\ _device = prior
          /\ _device_list = IF prior = "cpu" THEN host.CPU
                            ELSE IF prior = "gpu" THEN host.GPU
                            ELSE <<>>
    /\ _strategy = NoStrategy
    /\ _scope = 0
    /\ _growth = FALSE
    /\ builds = 0
    /\ scopes = <<>>
    /\ memory_growth = [k \in 1..Len(host.GPU) |-> FALSE]
    /\ stack = <<>>
    /\ \E op \in {"cpu", "gpu"}, devices \in SelectArgs :
          call = Outcome(op, "user", devices, "pending")

SelectNext == RunCpu \/ RunGpu

SelectSpec == SelectInit /\ [][SelectNext]_vars

---------------------------------------------------------------------------
(* Hosts whose framework names its GPUs in other ways *)

MaxSegs == 3

Seg_GPU    == <<"G","P","U">>
Seg_device == <<"/","d","e","v","i","c","e">>
Seg_0      == <<"0">>
Seg_2      == <<"2">>
Seg_none   == <<>>
Seg_Kelvin == <<Ch_Kelvin>>
Seg_GSigma == <<"G", Ch_Sigma>>
Seg_SigmaE == <<Ch_Sigma, Ch_EAcute>>

\* what stands between two ':' of a device name
Segments == {Seg_GPU, Seg_device, Seg_0, Seg_2, Seg_none, Seg_Kelvin,
             Seg_GSigma, Seg_SigmaE}

\* the name whose ':'-separated segments are segs
RECURSIVE Join(_)
Join(segs) ==
    IF Len(segs) = 1 THEN segs[1]
    ELSE segs[1] \o <<":">> \o Join(Tail(segs))

\* the segment lists of device names: one segment (a name without ':') or more
SegLists == {q \in SeqsUpTo(Segments, MaxSegs) : Len(q) >= 1}

NamedGpu(segs) == [name |-> Join(segs), device_type |-> TypeGPU]

\* a second GPU, for a selection of two devices in either order
SecondGpus == {NamedGpu(<<Seg_device, Seg_GPU, Seg_2>>), NamedGpu(<<Seg_GPU, Seg_0>>)}

\* the state after the import on such a host, with one gpu() call made
FormatInit ==
    /\ \E q \in SegLists, more \in {<<>>} \cup {<<d>> : d \in SecondGpus} :
          host = [CPU |-> DevicesOf(TypeCPU, 1), GPU |-> <<NamedGpu(q)>> \o more]
    /\ _device = "None"
    /\ _device_list = <<>>
    /\ _strategy = NoStrategy
    /\ _scope = 0
    /\ _growth = FALSE
    /\ builds = 0
    /\ scopes = <<>>
    /\ memory_growth = [k \in 1..Len(host.GPU) |-> FALSE]
    /\ stack = <<>>
    /\ \E devices \in {DefaultArg, ListArg(<<Int_(1), Int_(0)>>)} :
          call = Outcome("gpu", "user", devices, "pending")

FormatNext ==
    \/ RunGpu
    \/ \E raises \in Faults : UserStrategy(raises)
    \/ \E raises \in Faults : UserReplica(raises)

FormatSpec == FormatInit /\ [][FormatNext]_vars

---------------------------------------------------------------------------
(* What the specification says of a select call, stated without the code *)

\* the index the specification gives an identifier: an integer is the index, a
\* string is matched against FIRST, SECOND, THIRD, FOURTH whatever its case
\* (each spelling among the identifiers is listed: with a dotless i for I,
\* a ligature for FI or ST, a long s for S), anything else is invalid
SpecIndex(id) ==
    IF id.t = "int" THEN id.i
    ELSE IF id.t # "str" THEN -1
    ELSE IF id.s \in {S_FIRST, S_first, S_fDotlessIrst, S_LigFirst,
                      S_firLigSt, S_firLigLongST} THEN 0
    ELSE IF id.s \in {S_SECOND, S_Second, S_LongSecond} THEN 1
    ELSE IF id.s \in {S_THIRD, S_thIRD} THEN 2
    ELSE IF id.s \in {S_FOURTH, S_fourth} THEN 3
    ELSE -1

SpecIsAll(id) == id = Str_(S_all)

\* the identifiers of a call, in order
IdsOf(devices) == IF devices.list THEN devices.ids ELSE <<devices.one>>

\* the devices the framework reports for the type a call selects
AvailableTo(op) == IF op = "cpu" THEN host.CPU ELSE host.GPU

InRange(id, available) == SpecIndex(id) >= 0 /\ SpecIndex(id) < Len(available)

\* some identifier of the call resolves to an invalid or out-of-range index
HasBadId(devices, available) ==
    \E k \in 1..Len(IdsOf(devices)) :
        ~SpecIsAll(IdsOf(devices)[k]) /\ ~InRange(IdsOf(devices)[k], available)

\* no identifier is "all" and every one resolves to an index in range
AllIndexed(devices, available) ==
    \A k \in 1..Len(IdsOf(devices)) :
        ~SpecIsAll(IdsOf(devices)[k]) /\ InRange(IdsOf(devices)[k], available)

IsSelect(c) == c.op \in {"cpu", "gpu"}
Ran(c) == IsSelect(c) /\ c.raised # "pending"

\* C2: a select call with a bad identifier anywhere in its list fails as a
\* whole with the index error, and installs no selection: the Device Selection
\* is the one held before the call
C2_BadIdentifierFailsWholeCall ==
    [][(IsSelect(call) /\ call.raised = "pending"
          /\ HasBadId(call.arg, AvailableTo(call.op)))
        => (call'.raised = "IndexError" /\ _device_list' = _device_list)]_vars

\* C2 witness: a list of three identifiers whose last is bad and whose first
\* two are valid has failed, and the earlier selection is still held
C2_Witness ==
    /\ Ran(call) /\ call.raised = "IndexError"
    /\ call.arg.list /\ Len(call.arg.ids) = 3
    /\ InRange(call.arg.ids[1], AvailableTo(call.op))
    /\ SpecIsAll(call.arg.ids[2])
    /\ ~InRange(call.arg.ids[3], AvailableTo(call.op))
    /\ ~SpecIsAll(call.arg.ids[3])
    /\ _device_list # <<>>

\* C7: a select call without "all" whose N identifiers all resolve in range
\* succeeds and installs N devices, the i-th the available device at the index
\* of the i-th identifier
C7_IndexedSelectionInOrder ==
    [][(IsSelect(call) /\ call.raised = "pending"
          /\ AllIndexed(call.arg, AvailableTo(call.op)))
        => /\ call'.raised = "none"
           /\ Len(_device_list') = Len(IdsOf(call.arg))
           /\ \A k \in 1..Len(IdsOf(call.arg)) :
                 _device_list'[k] = AvailableTo(call.op)[SpecIndex(IdsOf(call.arg)[k]) + 1]]_vars

\* C7 witness: three identifiers, one repeated and out of ascending order,
\* were selected
C7_Witness ==
    /\ Ran(call) /\ call.raised = "none" /\ call.op = "gpu"
    /\ call.arg = ListArg(<<Int_(1), Int_(0), Str_(S_Second)>>)
    /\ Len(_device_list) = 3
    /\ _device_list[1] = _device_list[3] /\ _device_list[1] # _device_list[2]

\* C8: select(type, "all") succeeds and installs the full list the framework
\* reports for the type, in its order
C8_AllSelectsEveryDevice ==
    [][(IsSelect(call) /\ call.raised = "pending" /\ call.arg = OneArg(Str_(S_all)))
        => (call'.raised = "none" /\ _device_list' = AvailableTo(call.op))]_vars

\* C8 witness: gpu("all") has run on a host with several GPUs after a CPU
\* selection
C8_Witness ==
    /\ Ran(call) /\ call.op = "gpu" /\ call.arg = OneArg(Str_(S_all))
    /\ Len(host.GPU) >= 2 /\ _device_list = host.GPU

\* C8 witness on a host without GPU: the selection is empty
C8_WitnessEmpty ==
    /\ Ran(call) /\ call.op = "gpu" /\ call.arg = OneArg(Str_(S_all))
    /\ host.GPU = <<>> /\ _device_list = <<>> /\ call.raised = "none"

\* C10: a call with one identifier other than "all" selects exactly the device
\* at the identifier's index (an integer itself; FIRST..FOURTH in any case 0..3)
\* when that index is in range, and fails with the index error otherwise
C10_IdentifierResolution ==
    [][(IsSelect(call) /\ call.raised = "pending" /\ ~call.arg.list
          /\ ~SpecIsAll(call.arg.one))
        => IF InRange(call.arg.one, AvailableTo(call.op))
           THEN /\ call'.raised = "none"
                /\ _device_list' = <<AvailableTo(call.op)[SpecIndex(call.arg.one) + 1]>>
           ELSE call'.raised = "IndexError"]_vars

\* C10 witness: gpu("Second") has selected the GPU at index 1
C10_Witness ==
    /\ Ran(call) /\ call.op = "gpu" /\ call.arg = OneArg(Str_(S_Second))
    /\ call.raised = "none" /\ _device_list = <<host.GPU[2]>>

\* C10 witness: gpu("SECOND") has failed on a host with fewer than two GPUs
C10_WitnessTooFew ==
    /\ Ran(call) /\ call.op = "gpu" /\ call.arg = OneArg(Str_(S_SECOND))
    /\ Len(host.GPU) < 2 /\ call.raised = "IndexError"

\* C10 witness: gpu("fourth") has selected the GPU at index 3
C10_WitnessFourth ==
    /\ Ran(call) /\ call.op = "gpu" /\ call.arg = OneArg(Str_(S_fourth))
    /\ call.raised = "none" /\ _device_list = <<host.GPU[4]>>

---------------------------------------------------------------------------
(* The cached strategy *)

\* built is a strategy the framework builds for this selection, whichever object
\* it is: the shape and, in order, the formatted names of the devices
BuiltFrom(built, selection) ==
    LET names == _short_names(selection)
    IN IF Len(selection) = 0
       THEN built.kind = "OneDevice" /\ built.devices = <<DefaultCpu>>
       ELSE /\ built.devices = names
            /\ built.kind = IF Len(selection) = 1 THEN "OneDevice" ELSE "Mirrored"

\* the calls that hand out the strategy or use it
StrategyReads == {"strategy", "replica", "num", "scope", "__enter__"}

\* C1: a cached strategy is always the one built from the current Device
\* Selection, and the strategy a read has just returned is that cached one
C1_StrategyNeverStale ==
    /\ _strategy # NoStrategy => BuiltFrom(_strategy, _device_list)
    /\ (call.op \in StrategyReads /\ call.raised = "none") =>
          (call.strategy = _strategy /\ BuiltFrom(call.strategy, _device_list))

\* C1 witness: a second strategy was built and returned after a reselection
\* that followed a failed select, in an open "with" block of the first one
C1_Witness ==
    /\ call.op = "strategy" /\ call.strategy.id = 2
    /\ Len(_device_list) >= 2
    /\ Len(scopes) = 1 /\ scopes[1].strategy = 1 /\ stack # <<>>
    /\ _growth

\* C4: a strategy read with a strategy cached returns that very object and
\* builds nothing; one without builds exactly one object and caches it, or
\* raises and builds none; and a cached object is replaced by nothing but the
\* reset of a select
C4_BuiltOncePerSelection ==
    [][/\ call'.op \in StrategyReads =>
            IF _strategy # NoStrategy
            THEN /\ _strategy' = _strategy /\ builds' = builds
                 /\ call'.strategy = _strategy /\ call'.raised = "none"
            ELSE IF call'.raised = "none"
            THEN /\ builds' = builds + 1
                 /\ _strategy' # NoStrategy /\ _strategy'.id = builds'
                 /\ call'.strategy = _strategy'
            ELSE builds' = builds /\ _strategy' = NoStrategy
       /\ (_strategy # NoStrategy /\ _strategy' # _strategy) =>
            (IsSelect(call') /\ _strategy' = NoStrategy)
       /\ builds' # builds => call'.op \in StrategyReads]_vars

\* C4 witness: after one build, an entered scope, and later reads, the object
\* returned is still the first one
C4_Witness ==
    /\ call.op = "replica" /\ call.strategy.id = 1 /\ builds = 1
    /\ Len(scopes) = 2 /\ scopes[1].strategy = 1 /\ scopes[2].strategy = 1
    /\ _device # "None"

\* C5 as stated: after any select call, failed ones included, no strategy is
\* cached
C5_AnySelectInvalidates ==
    IsSelect(call) => _strategy = NoStrategy

\* C5 as amended: after a select call that raised nothing the type is the one
\* selected and no strategy is cached
C5_SuccessfulSelectInvalidates ==
    (IsSelect(call) /\ call.raised = "none") =>
        (_device = call.op /\ _strategy = NoStrategy)

\* C5 witness: a select has succeeded after a strategy had been built
C5_Witness ==
    /\ IsSelect(call) /\ call.raised = "none"
    /\ builds >= 1 /\ _strategy = NoStrategy

\* C6: at every build the strategy is decided by the number of selected
\* devices: none gives a one-device strategy on "/cpu:0", one a one-device
\* strategy on its formatted name, two or more a mirrored strategy over the
\* formatted names in selection order; the replica count read then is the
\* number of selected devices for a mirrored strategy and 1 otherwise
C6_ShapeByDeviceCount ==
    [][builds' # builds =>
        LET n == Len(_device_list)
            names == _short_names(_device_list)
        IN /\ n = 0 => (_strategy'.kind = "OneDevice" /\ _strategy'.devices = <<DefaultCpu>>)
           /\ n = 1 => (_strategy'.kind = "OneDevice" /\ _strategy'.devices = <<names[1]>>)
           /\ n >= 2 => (_strategy'.kind = "Mirrored" /\ _strategy'.devices = names)
           /\ call'.op \in {"replica", "num"} =>
                 call'.num = IF n >= 2 THEN n ELSE 1]_vars

\* C6 witness: gpu("all") on a host with two GPUs, then the replica count: 2
C6_Witness ==
    /\ call.op = "replica" /\ call.num = 2
    /\ Len(host.GPU) = 2 /\ _device = "gpu" /\ _device_list = host.GPU
    /\ _strategy.kind = "Mirrored"

\* C6 witness: nothing selected, and the strategy is the default CPU one
C6_WitnessDefault ==
    /\ _device = "None" /\ _strategy.kind = "OneDevice"
    /\ _strategy.devices = <<DefaultCpu>>

---------------------------------------------------------------------------
(* Scopes *)

\* the scope object k is the one an open block entered
OpenBlock(k) == \E f \in 1..Len(stack) : stack[f].pc = "body" /\ stack[f].ctx = k

\* C3: a scope object that __enter__ entered is exited by the __exit__ of its
\* block, on return and on an exception alike: while the block is open it has
\* not been exited, and once the block has ended it has been exited exactly
\* once
C3_EveryScopeClosedOnce ==
    \A k \in 1..Len(scopes) :
        scopes[k].entered = 1 =>
            scopes[k].exited = IF OpenBlock(k) THEN 0 ELSE 1

\* the part of C3 that holds: a block whose scope object is still the last
\* one entered exits that object, by return and by exception, and then it has
\* been exited exactly once
C3_LastEnteredScopeClosedOnce ==
    [][(stack # <<>> /\ Top.pc = "body" /\ Len(stack') < Len(stack) /\ Top.ctx = _scope
          /\ scopes[_scope].exited = 0)
        => scopes'[Top.ctx].exited = 1]_vars

Decorators == {"use_cpu", "use_gpu0", "use_gpu1", "use_gpu2", "use_gpu3"}

\* the selection a decorator forces: all CPUs, or the GPU at its index
Forced(by) ==
    IF by = "use_cpu" THEN host.CPU
    ELSE IF by = "use_gpu0" THEN <<host.GPU[1]>>
    ELSE IF by = "use_gpu1" THEN <<host.GPU[2]>>
    ELSE IF by = "use_gpu2" THEN <<host.GPU[3]>>
    ELSE <<host.GPU[4]>>

\* the decorated work of a wrapper is running or has run
WorkInvoked(frame) == frame.by \in Decorators /\ frame.pc = "body"

\* C9, the order select, enter scope, call: the work of a decorator runs only
\* in an entered scope; when the wrapper has entered its scope, the selection
\* is the decorator's and the scope is that of the strategy built from it; a
\* wrapper whose select raised goes no further
C9_SelectThenScopeThenCall ==
    /\ \A f \in 1..Len(stack) :
          WorkInvoked(stack[f]) =>
              (stack[f].ctx \in 1..Len(scopes) /\ scopes[stack[f].ctx].entered = 1)
    /\ (call.op = "__enter__" /\ call.by \in Decorators /\ call.raised = "none") =>
          /\ WorkInvoked(Top) /\ Top.by = call.by
          /\ _device_list = Forced(call.by)
          /\ scopes[Top.ctx].strategy = _strategy.id
          /\ BuiltFrom(_strategy, Forced(call.by))
    /\ (IsSelect(call) /\ call.by \in Decorators) =>
          IF call.raised = "none"
          THEN Top = Frame(call.by, "selected", 0) /\ _device_list = Forced(call.by)
          ELSE \A f \in 1..Len(stack) : stack[f].pc = "body"

\* C9, the exit: when the work of a decorator returns or raises, the scope its
\* wrapper entered is exited
C9_ScopeExitedAfterWork ==
    (stack # <<>> /\ WorkInvoked(Top) /\ Len(stack') < Len(stack)) =>
        scopes'[Top.ctx].exited = scopes[Top.ctx].exited + 1

\* C9 as a whole: the order holds in every state reached, and every end of a
\* decorator's work exits the scope entered for it
C9_PresetOrder ==
    [][C9_SelectThenScopeThenCall' /\ C9_ScopeExitedAfterWork]_vars

---------------------------------------------------------------------------
(* What the operations leave alone *)

\* C11: a step of any operation other than cpu() and gpu() leaves the Device
\* Selection and the selected device type as they were; a write of the Growth
\* Flag stores the value written and changes nothing else, and a read of it
\* returns the flag and changes nothing
C11_OnlySelectChangesSelection ==
    [][/\ ~IsSelect(call') => (_device_list' = _device_list /\ _device' = _device)
       /\ call'.op = "growth.setter" =>
             /\ _growth' = call'.flag
             /\ UNCHANGED <<host, _device, _device_list, _strategy, _scope,
                            builds, scopes, memory_growth, stack>>
       /\ call'.op = "growth" =>
             /\ call'.flag = _growth
             /\ UNCHANGED <<host, _device, _device_list, _strategy, _scope, _growth,
                            builds, scopes, memory_growth, stack>>
       /\ call'.op = "__iter__" => call'.items = _device_list]_vars

\* C11 witness: the flag was set in an open "with" block, with several devices
\* selected and their strategy cached, and all of that is still held
C11_Witness ==
    /\ call.op = "growth.setter" /\ call.flag /\ _growth
    /\ Len(_device_list) >= 2 /\ _device = "gpu"
    /\ _strategy.kind = "Mirrored" /\ stack # <<>>

---------------------------------------------------------------------------
(* Device name formatting *)

\* the lowercased form of each segment, written out
SpecLower(seg) ==
    IF seg = Seg_GPU THEN <<"g","p","u">>
    ELSE IF seg = Seg_Kelvin THEN <<"k">>
    ELSE IF seg = Seg_GSigma THEN <<"g", Ch_EndSigma>>
    ELSE IF seg = Seg_SigmaE THEN <<Ch_sigma, Ch_eAcute>>
    ELSE seg

\* the segments of a device name: the list that joins to it
SegmentsOf(name) == CHOOSE q \in SegLists : Join(q) = name

\* "/" + the second-to-last segment lowercased + ":" + the last segment
SpecShortName(name) ==
    LET q == SegmentsOf(name)
    IN <<"/">> \o SpecLower(q[Len(q) - 1]) \o <<":">> \o q[Len(q)]

\* C12: a strategy built over selected devices names them by their formatted
\* names: as many names as devices, in the order of the Device Selection, each
\* "/" + the second-to-last ':'-separated segment of the framework name in
\* lower case + ":" + the last segment
C12_FormattedNames ==
    (_strategy # NoStrategy /\ _device_list # <<>>) =>
        /\ Len(_strategy.devices) = Len(_device_list)
        /\ \A k \in 1..Len(_device_list) :
              _strategy.devices[k] = SpecShortName(_device_list[k].name)

\* C12 witness: the second GPU, "/device:GPU:2", was selected first, and the
\* mirrored strategy names it "/gpu:2", before the name of the first GPU
C12_Witness ==
    /\ _strategy.kind = "Mirrored"
    /\ _device_list = <<host.GPU[2], host.GPU[1]>>
    /\ host.GPU[2].name = <<"/","d","e","v","i","c","e",":","G","P","U",":","2">>
    /\ Len(Split(host.GPU[1].name)) = 2
    /\ _strategy.devices[1] = <<"/","g","p","u",":","2">>
    /\ _strategy.devices[2] # _strategy.devices[1]

---------------------------------------------------------------------------
(* The Growth Flag at a build *)

\* the memory-growth setting of every GPU the framework reports is the flag
AllSetTo(setting, flag) == setting = [k \in 1..Len(host.GPU) |-> flag]

\* C13 as stated: every build at which the framework raises nothing leaves
\* every GPU the framework reports with the current Growth Flag, whatever type
\* is selected
C13_GrowthAppliedAtEveryBuild ==
    [][(builds' # builds /\ ~call'.caught) => AllSetTo(memory_growth', _growth)]_vars

\* a strategy read finds no strategy cached and starts a build
BuildStarts == call'.op \in StrategyReads /\ _strategy = NoStrategy

\* C13 as amended: a build with type gpu selected applies the current Growth
\* Flag to the GPUs the framework reports, in their order, up to the first at
\* which the framework raises, and to all of them when it raises nothing; a
\* build with type cpu or with nothing selected leaves the memory-growth
\* settings alone, and so does every step that starts no build
C13_GrowthAppliedWhenGpu ==
    [][IF BuildStarts
       THEN IF _device = "gpu"
            THEN /\ \E n \in 0..Len(host.GPU) :
                       memory_growth' = [k \in 1..Len(host.GPU) |->
                                           IF k <= n THEN _growth ELSE memory_growth[k]]
                 /\ (~call'.caught /\ call'.raised # "ValueError") =>
                       AllSetTo(memory_growth', _growth)
            ELSE /\ memory_growth' = memory_growth
                 /\ ~call'.caught /\ call'.raised # "ValueError"
       ELSE memory_growth' = memory_growth]_vars

\* C13 witness: with gpu selected and the flag set, a second build has left
\* both GPUs with the flag
C13_Witness ==
    /\ call.op \in StrategyReads /\ ~call.caught /\ builds = 2
    /\ call.strategy.id = 2
    /\ _device = "gpu" /\ _growth /\ Len(host.GPU) = 2
    /\ AllSetTo(memory_growth, TRUE)

\* C13 witness: with cpu selected and the flag set, a build has left the GPUs
\* without it
C13_WitnessCpu ==
    /\ call.op \in StrategyReads /\ builds = 1 /\ call.strategy.id = 1
    /\ _device = "cpu" /\ _growth /\ Len(host.GPU) = 2
    /\ AllSetTo(memory_growth, FALSE)

\* C14 as stated: a call during whose build the framework raised while the
\* Growth Flag was applied, whatever the error, raises nothing, and a strategy
\* has been built and cached and is the one the call returns or enters
C14_AnyGrowthErrorSuppressed ==
    [][(BuildStarts /\ (call'.caught \/ call'.raised = "ValueError")) =>
         /\ call'.raised = "none"
         /\ builds' = builds + 1 /\ _strategy' # NoStrategy
         /\ call'.strategy = _strategy']_vars

\* C14 as amended: a call during whose build the framework raised
\* RuntimeError while the Growth Flag was applied returns as if nothing had
\* been raised: it raises nothing, one new strategy has been built from the
\* Device Selection, with the shape its number of devices gives, and that
\* strategy is cached and is the one the call returns or enters
C14_GrowthErrorSuppressed ==
    [][call'.caught =>
         /\ call'.op \in StrategyReads /\ call'.raised = "none"
         /\ _strategy = NoStrategy
         /\ builds' = builds + 1 /\ _strategy'.id = builds'
         /\ _strategy'.kind = IF Len(_device_list) >= 2 THEN "Mirrored" ELSE "OneDevice"
         /\ BuiltFrom(_strategy', _device_list)
         /\ call'.strategy = _strategy'
         /\ call'.op = "__enter__" =>
               (scopes'[_scope'].strategy = _strategy'.id /\ scopes'[_scope'].entered = 1)]_vars

\* C14 witness: "with device_manager:" was entered with two GPUs selected and
\* the flag set; the framework raised at the second GPU, the first GPU alone
\* has the flag, and the mirrored strategy is cached and its scope entered
C14_Witness ==
    /\ call.op = "__enter__" /\ call.caught /\ call.raised = "none"
    /\ _device = "gpu" /\ Len(_device_list) = 2 /\ _growth
    /\ memory_growth = <<TRUE, FALSE>>
    /\ _strategy.kind = "Mirrored" /\ call.strategy = _strategy
    /\ stack # <<>> /\ scopes[Top.ctx].entered = 1

---------------------------------------------------------------------------
(* A select call that fails *)

Failed(c) == IsSelect(c) /\ c.raised = "IndexError"

\* C15: a select call that fails with the index error leaves the Device
\* Selection and the cached strategy as they were; an iteration right after
\* it yields the selection held before the call, and a strategy read right
\* after it returns the strategy cached before the call or, if none was
\* cached, one built from the selection held before the call
C15_FailedSelectKeepsState ==
    [][/\ Failed(call') => (_device_list' = _device_list /\ _strategy' = _strategy)
       /\ (Failed(call) /\ call'.op = "__iter__") => call'.items = _device_list
       /\ (Failed(call) /\ call'.op \in StrategyReads /\ call'.raised = "none") =>
             /\ _strategy # NoStrategy => call'.strategy = _strategy
             /\ BuiltFrom(call'.strategy, _device_list)]_vars

\* C15 witness: with both GPUs selected and their mirrored strategy cached,
\* cpu([1, 0]) has failed on the host's one CPU, and both are still held
C15_Witness ==
    /\ Failed(call) /\ call.op = "cpu" /\ call.arg = ListArg(<<Int_(1), Int_(0)>>)
    /\ Len(host.GPU) = 2 /\ _device_list = host.GPU
    /\ _strategy.kind = "Mirrored" /\ BuiltFrom(_strategy, host.GPU)

\* the device_type of the devices of the selected type
SelectedType ==
    IF _device = "cpu" THEN TypeCPU
    ELSE IF _device = "gpu" THEN TypeGPU
    ELSE <<>>

\* C16: every device of the Device Selection is of the selected device type:
\* with cpu selected it holds CPUs only, with gpu selected GPUs only, and with
\* nothing selected it is empty
C16_SelectionOfSelectedType ==
    \A k \in 1..Len(_device_list) : _device_list[k].device_type = SelectedType

\* what of C16 holds: after a select call that raised nothing, every device of
\* the Device Selection is of the type the call selected
C16_TypeMatchesAfterSuccess ==
    [][(IsSelect(call') /\ call'.raised = "none") =>
          C16_SelectionOfSelectedType']_vars

---------------------------------------------------------------------------
(* Nested scopes *)

\* C17: the end of a block, nested or not, exits the scope object that the
\* __enter__ of that very block entered, which was open until then, and no
\* other; no scope object is ever exited twice; and when the outermost block
\* has ended, every scope object that was entered has been exited
C17_NestedExitClosesOwnScope ==
    [][/\ (stack # <<>> /\ Top.pc = "body" /\ Len(stack') < Len(stack)) =>
             /\ scopes[Top.ctx].exited = 0
             /\ scopes' = [scopes EXCEPT ![Top.ctx].exited = 1]
       /\ \A k \in 1..Len(scopes') : scopes'[k].exited <= 1
       /\ stack' = <<>> =>
             \A k \in 1..Len(scopes') :
                 scopes'[k].entered = 1 => scopes'[k].exited = 1]_vars

====
